---- MODULE Spec2Model ----
(***************************************************************************)
(* CHAETRA cognitive core of intuitiv/stock_analysis: the opinion engine   *)
(* (app/chaetra/opinion.py), the two-tier knowledge store                  *)
(* (app/chaetra/memory.py over app/core/cache.py), the generation gateway  *)
(* (app/chaetra/llm.py) and the orchestrator's intent parsing              *)
(* (app/chaetra/brain.py).                                                 *)
(***************************************************************************)
EXTENDS Integers, Sequences, FiniteSets, TLC

(***************************************************************************)
(* Bounds of the model.                                                    *)
(***************************************************************************)
\* uuid4() values the model hands out (opinion ids and MemoryItem ids)
MaxIds == 4
\* opinions formed in one run
MaxOpinions == 1
\* records written through learn_from_feedback in one run
MaxRecords == 2
\* largest limit passed to retrieve_memory
MaxLimit == 2
\* longest list inside a provider context
MaxListLen == 2
\* updates are explored from snapshots whose confidence is a fraction with
\* a denominator up to this (the exact products stay within machine integers)
MaxDenominator == 100000

(***************************************************************************)
(* Program constants.                                                      *)
(***************************************************************************)
short_term_cache_prefix == "st_memory:"
core_memory_cache_prefix == "core_memory:"
\* ttl=86400 passed by add_to_short_term
ShortTermTTL == 86400
\* RedisCache.default_ttl, used by set() when no ttl is passed
default_ttl == 3600
\* OpinionSystem: promotion needs validation_count >= 3
PromoteValidations == 3

(***************************************************************************)
(* Numbers.  A Python float is modelled by the exact rational <<n, d>>,    *)
(* d > 0, in lowest terms.                                                 *)
(***************************************************************************)
Abs(x) == IF x < 0 THEN -x ELSE x

RECURSIVE GCD(_, _)
GCD(a, b) == IF b = 0 THEN a ELSE GCD(b, a % b)

Rat(n, d) == LET g == GCD(Abs(n), d) IN <<n \div g, d \div g>>
Mul(a, b) == Rat(a[1] * b[1], a[2] * b[2])
Lt(a, b) == a[1] * b[2] < b[1] * a[2]
Geq(a, b) == ~Lt(a, b)
\* Python's max(a, b) and min(a, b): the first argument unless the second
\* is strictly greater (smaller)
PyMax(a, b) == IF Lt(a, b) THEN b ELSE a
PyMin(a, b) == IF Lt(b, a) THEN b ELSE a
Zero == Rat(0, 1)
One == Rat(1, 1)
\* OpinionSystem.min_confidence = 0.6
min_confidence == Rat(6, 10)
\* update_opinion: promotion needs confidence >= 0.8
PromoteConfidence == Rat(8, 10)

(***************************************************************************)
(* Python scalars.  A value carries its type: a uuid.UUID object and the   *)
(* string str(uuid) are different values, and == between them is False.    *)
(***************************************************************************)
PyStr(s) == [t |-> "str", s |-> s, n |-> 0]
PyNum(k) == [t |-> "num", s |-> "", n |-> k]
UUIDObj(k) == [t |-> "UUID", s |-> "uuid", n |-> k]
\* str(u) for a UUID u
StrOfUUID(u) == [t |-> "str", s |-> "uuid", n |-> u.n]
\* uuid.UUID(x) for a string x holding a uuid
UUIDOfStr(x) == [t |-> "UUID", s |-> "uuid", n |-> x.n]
\* a field value of a stored record: a scalar or a list of scalars
Scalar(x) == [list |-> FALSE, items |-> <<x>>]
ListOf(xs) == [list |-> TRUE, items |-> xs]
Range(f) == {f[i] : i \in DOMAIN f}


(***************************************************************************)
(* State.                                                                  *)
(***************************************************************************)
VARIABLES
    kv,        \* the keyed store: key -> [value, ttl (seconds left)]
    nextId,    \* the next value uuid.uuid4() returns
    last,      \* the call that completed last, with what it returned
    opinions,  \* per opinion id: the Opinion last returned for it, and the
               \* number of update_opinion calls that returned for it
    promoCalls,\* opinion ids for which an update computed the thresholds
    age,       \* per MemoryItem id written to the short-term tier: seconds since the write
    moved,     \* MemoryItem ids handed to move_to_core
    request    \* the retrieve_memory arguments the caller of the run uses


VARIABLES
    tasks,     \* per task: the call it is suspended in, with its local variables
    singletons \* CHAETRA._instance and the llm_manager of dependencies.py (0 is None)

taskVars == <<tasks, singletons>>
memVars == <<kv, nextId, last, opinions, promoCalls, age, moved, request, taskVars>>

VARIABLES
    providers,             \* LLMManager.providers: the names that initialized
    default_provider_name, \* LLMManager.default_provider_name ("" is None)
    gw                     \* the gateway call in progress or completed last

llmVars == <<providers, default_provider_name, gw>>
vars == <<memVars, llmVars>>

Key(prefix, id) == <<prefix, id.n>>
Prefixes == {short_term_cache_prefix, core_memory_cache_prefix}

(***************************************************************************)
(* The keyed store (RedisCache).                                           *)
(***************************************************************************)
\* The store holds JSON (set does json.dumps, get does json.loads), so what
\* is read back holds strings where the program held uuid.UUID objects.
\* json.dumps itself raises on a uuid.UUID: that is the ok = FALSE branch of
\* set.  The ok = TRUE branch is a store that accepts the record, the UUID
\* written as str(uuid).
EncodeScalar(x) == IF x.t = "UUID" THEN StrOfUUID(x) ELSE x
\* the stored form of a MemoryItem.__dict__
Encode(item) ==
    [item EXCEPT !.id = Scalar(EncodeScalar(item.id.items[1])),
                 !.content = [k \in DOMAIN item.content |->
                                IF k = "id" THEN EncodeScalar(item.content[k])
                                ELSE item.content[k]]]

\* RedisCache.set(key, value, ttl): ok = FALSE is the branch in which the
\* write raises and set returns False; ttl = 0 stands for ttl=None
KVSet(store, key, value, ttl, ok) ==
    LET effective_ttl == IF ttl # 0 THEN ttl ELSE default_ttl
    IN  IF ok
        THEN [k \in DOMAIN store \cup {key} |->
                IF k = key THEN [value |-> Encode(value), ttl |-> effective_ttl]
                ELSE store[k]]
        ELSE store

\* RedisCache.delete(key): ok = FALSE is the branch that returns False
KVDelete(store, key, ok) ==
    IF ok THEN [k \in DOMAIN store \ {key} |-> store[k]] ELSE store

\* RedisCache.get(key): the decoded value, or None (<<>>) when the key is
\* absent or the read raises
KVGet(store, key, ok) ==
    IF ok /\ key \in DOMAIN store THEN <<store[key].value>> ELSE <<>>

\* scan(prefix*): the keys under the prefix, in every order the store may
\* list them
RECURSIVE Perms(_)
Perms(S) ==
    IF S = {} THEN {<<>>}
    ELSE UNION {{<<k>> \o p : p \in Perms(S \ {k})} : k \in S}

KVScan(store, prefix) == Perms({k \in DOMAIN store : k[1] = prefix})

(***************************************************************************)
(* MemorySystem.                                                           *)
(***************************************************************************)
\* MemoryItem(id=uuid4(), content, source, memory_type="short_term",
\*            confidence=0.0, validation_count=0, tags=tags or [])
MemoryItem(id, content, source, tags) ==
    [id |-> Scalar(id), content |-> content, source |-> Scalar(PyStr(source)),
     memory_type |-> Scalar(PyStr("short_term")),
     confidence |-> Scalar(PyNum(0)), validation_count |-> Scalar(PyNum(0)),
     tags |-> ListOf(tags)]

\* v in container, for a list container
PyIn(v, container) == \E i \in DOMAIN container.items : container.items[i] = v

\* _matches_query without its "key not in memory_data" test: a field the
\* record lacks is passed over
MatchesQueryWildcard(memory_data, query) ==
    \A key \in DOMAIN query :
        key \in DOMAIN memory_data =>
            IF query[key].list
            THEN \E i \in DOMAIN query[key].items :
                     PyIn(query[key].items[i], memory_data[key])
            ELSE memory_data[key] = query[key]

\* MemorySystem._matches_query(memory_data, query)
MatchesQuery(memory_data, query) ==
    \A key \in DOMAIN query :
        /\ key \in DOMAIN memory_data
        /\ IF query[key].list
           THEN \E i \in DOMAIN query[key].items :
                    PyIn(query[key].items[i], memory_data[key])
           ELSE memory_data[key] = query[key]

\* the scan loop of retrieve_memory over the listed keys: a record is
\* appended when it is read and matches, and the loop stops at limit
RECURSIVE Collect(_, _, _, _, _, _)
Collect(store, keys, query, limit, getOk, memories) ==
    IF keys = <<>> \/ (memories # <<>> /\ Len(memories) >= limit) THEN memories
    ELSE LET memory_data == KVGet(store, Head(keys), getOk)
         IN  IF memory_data # <<>> /\ MatchesQuery(memory_data[1], query)
             THEN Collect(store, Tail(keys), query, limit, getOk,
                          Append(memories, memory_data[1]))
             ELSE Collect(store, Tail(keys), query, limit, getOk, memories)

\* MemorySystem.retrieve_memory(query, memory_type, limit); stKeys and
\* coreKeys are the two scan results
RetrieveMemory(store, query, memory_type, limit, stKeys, coreKeys, getOk) ==
    LET keys == (IF memory_type \in {"all", "short_term"} THEN stKeys ELSE <<>>)
                \o (IF memory_type \in {"all", "core"} THEN coreKeys ELSE <<>>)
        memories == Collect(store, keys, query, limit, getOk, <<>>)
    IN  SubSeq(memories, 1, IF limit < Len(memories) THEN limit ELSE Len(memories))

\* what retrieve_memory may return, over the orders in which the store
\* lists the keys of each tier
Retrievals(store, query, memory_type, limit, getOk) ==
    {RetrieveMemory(store, query, memory_type, limit, stKeys, coreKeys, getOk) :
        stKeys \in KVScan(store, short_term_cache_prefix),
        coreKeys \in KVScan(store, core_memory_cache_prefix)}

\* add_to_short_term writing without ttl=86400
AddToShortTermStoreDefaultTTL(store, id, content, source, tags, ok) ==
    KVSet(store, Key(short_term_cache_prefix, id),
          MemoryItem(id, content, source, tags), 0, ok)

\* the store after MemorySystem.add_to_short_term(content, source, tags)
AddToShortTermStore(store, id, content, source, tags, ok) ==
    KVSet(store, Key(short_term_cache_prefix, id),
          MemoryItem(id, content, source, tags), ShortTermTTL, ok)

\* move_to_core without memory_item.memory_type = "core"
MoveToCoreStoreUntyped(store, memory_item, okDel, okSet) ==
    LET id == memory_item.id.items[1]
        afterDelete == KVDelete(store, Key(short_term_cache_prefix, id), okDel)
    IN  KVSet(afterDelete, Key(core_memory_cache_prefix, id), memory_item, 0, okSet)

\* the store after MemorySystem.move_to_core(memory_item)
MoveToCoreStore(store, memory_item, okDel, okSet) ==
    LET item == [memory_item EXCEPT !.memory_type = Scalar(PyStr("core"))]
        id == memory_item.id.items[1]
        afterDelete == KVDelete(store, Key(short_term_cache_prefix, id), okDel)
    IN  KVSet(afterDelete, Key(core_memory_cache_prefix, id), item, 0, okSet)


(***************************************************************************)
(* OpinionSystem.                                                          *)
(***************************************************************************)
\* OpinionSystem._calculate_confidence(analysis_result)
CalculateConfidence(analysis_result) ==
    LET base == IF "confidence" \in DOMAIN analysis_result
                THEN analysis_result.confidence ELSE Rat(5, 10)
        \* analysis_result.get("data_quality_score") is tested for truth
        confidence == IF "data_quality_score" \in DOMAIN analysis_result
                         /\ analysis_result.data_quality_score # Zero
                      THEN Mul(base, analysis_result.data_quality_score)
                      ELSE base
    IN  PyMin(PyMax(confidence, Zero), One)

\* evidence.get("matches_belief", True)
MatchesBeliefDefaultTrue(evidence) ==
    IF "matches_belief" \in DOMAIN evidence THEN evidence.matches_belief ELSE TRUE

\* evidence.get("matches_belief", False)
MatchesBelief(evidence) ==
    IF "matches_belief" \in DOMAIN evidence THEN evidence.matches_belief ELSE FALSE

\* the for loop of _recalculate_confidence over new_evidence
RECURSIVE ApplyEvidence(_, _)
ApplyEvidence(confidence, new_evidence) ==
    IF new_evidence = <<>> THEN confidence
    ELSE ApplyEvidence(
            IF MatchesBelief(Head(new_evidence))
            THEN Mul(confidence, Rat(11, 10))
            ELSE Mul(confidence, Rat(9, 10)),
            Tail(new_evidence))

\* _recalculate_confidence without its final min(max(confidence, 0.0), 1.0)
RecalculateConfidenceUnclamped(current_confidence, validation_count, new_evidence) ==
    ApplyEvidence(Mul(current_confidence, Rat(10 + (validation_count - 1), 10)),
                  new_evidence)

\* OpinionSystem._recalculate_confidence(current_confidence, validation_count, new_evidence)
RecalculateConfidence(current_confidence, validation_count, new_evidence) ==
    LET boosted == Mul(current_confidence, Rat(10 + (validation_count - 1), 10))
        confidence == ApplyEvidence(boosted, new_evidence)
    IN  PyMin(PyMax(confidence, Zero), One)

\* current_opinion.evidence.extend(new_evidence) dropping the earlier items
EvidenceReplaced(evidence, new_evidence) == new_evidence

\* current_opinion.evidence.extend(new_evidence)
EvidenceExtend(evidence, new_evidence) == evidence \o new_evidence

\* the promotion test of update_opinion
ShouldPromote(confidence, validation_count) ==
    Geq(confidence, PromoteConfidence) /\ validation_count >= PromoteValidations

\* the storing test of form_opinion with > in place of >=
ShouldPersistStrict(confidence) == Lt(min_confidence, confidence)

\* the storing test of form_opinion: confidence >= self.min_confidence
ShouldPersist(confidence) == Geq(confidence, min_confidence)

\* the Opinion built by form_opinion
NewOpinion(id, topic, confidence) ==
    [id |-> id, topic |-> topic, belief |-> "belief", confidence |-> confidence,
     evidence |-> <<[type |-> "analysis_result"]>>, validation_count |-> 1]

\* {**opinion.__dict__, "id": str(opinion.id)}
OpinionContent(opinion) == [opinion EXCEPT !.id = StrOfUUID(opinion.id)]

(***************************************************************************)
(* Inputs.                                                                 *)
(***************************************************************************)
Topics == {"AAPL"}
SymbolLists == {<<PyStr("MSFT")>>}
\* analysis_result: without confidence (0.5), the threshold 0.6 itself,
\* 0.9 * 0.75 = 0.675, above 1, below 0, and a data_quality_score of 0
AnalysisResults ==
    {[analysis_summary |-> "summary"],
     [analysis_summary |-> "summary", confidence |-> Rat(6, 10)],
     [analysis_summary |-> "summary", confidence |-> Rat(9, 10),
      data_quality_score |-> Rat(3, 4)],
     [analysis_summary |-> "summary", confidence |-> Rat(3, 2)],
     [analysis_summary |-> "summary", confidence |-> Rat(-1, 2),
      data_quality_score |-> Rat(2, 1)],
     [analysis_summary |-> "summary", confidence |-> Rat(9, 10),
      data_quality_score |-> Zero]}
\* evidence items: matches_belief true, false, and without the field
Supporting == [type |-> "observed_outcome", matches_belief |-> TRUE]
Contradicting == [type |-> "observed_outcome", matches_belief |-> FALSE]
Unmarked == [type |-> "observed_outcome"]
EvidenceLists == {<<>>, <<Supporting>>, <<Contradicting>>, <<Supporting, Unmarked>>}
MemoryTypes == {"all", "short_term", "core"}
Queries ==
    {<<>>,
     [tags |-> ListOf(<<PyStr("AAPL")>>)],
     [tags |-> ListOf(<<PyStr("MSFT"), PyStr("unknown")>>)],
     [tags |-> ListOf(<<>>)],
     [memory_type |-> Scalar(PyStr("core"))],
     [type |-> Scalar(PyStr("core_pattern"))],
     [tags |-> ListOf(<<PyStr("learning")>>), source |-> Scalar(PyStr("feedback_learning"))],
     [tags |-> ListOf(<<PyStr("learning")>>), source |-> Scalar(PyStr("opinion_update"))],
     [id |-> Scalar(StrOfUUID(UUIDObj(1)))]}

Requests ==
    [query : Queries, memory_type : MemoryTypes, limit : 1..MaxLimit]
NoRequest == [query |-> <<>>, memory_type |-> "all", limit |-> 1]


(***************************************************************************)
(* Calls.                                                                  *)
(***************************************************************************)
NoCall ==
    [op |-> "none", arg |-> 0, outcome |-> "", opinion |-> <<>>, loaded |-> <<>>,
     evidence |-> <<>>, items |-> <<>>, analysis |-> <<>>, run |-> <<>>,
     readOk |-> TRUE, wrote |-> FALSE, target |-> 0]

\* the tasks of the event loop that run concurrently
TaskIds == {1, 2}
\* a task that is in no call
NoTask ==
    [op |-> "none", pc |-> "idle", arg |-> 0, item |-> <<>>, loaded |-> <<>>,
     evidence |-> <<>>, opinion |-> <<>>, peers |-> {}, ok |-> FALSE, returned |-> 0]
\* the module-level instances before any call: nothing created; lm_studio
\* and configured are the settings the process was started with
NoSingletons ==
    [lm_studio |-> FALSE, configured |-> TRUE, chaetra |-> 0, llm_manager |-> 0,
     brain |-> 0, created |-> 0, managers |-> 0]

StoreInit ==
    /\ kv = <<>>
    /\ nextId = 1
    /\ last = NoCall
    /\ opinions = <<>>
    /\ promoCalls = {}
    /\ age = <<>>
    /\ moved = {}
    /\ tasks = [t \in TaskIds |-> NoTask]
    /\ singletons = NoSingletons

MemInit == StoreInit /\ request = NoRequest
MemoryInit == StoreInit /\ request \in Requests

Extend(f, k, v) == [x \in DOMAIN f \cup {k} |-> IF x = k THEN v ELSE f[x]]

\* OpinionSystem.form_opinion(topic, analysis_result, context)
FormOpinion ==
    \E llmOk \in BOOLEAN :
        IF ~llmOk
        THEN \* self.llm.generate_text raises: nothing is built
             /\ last' = [NoCall EXCEPT !.op = "form_opinion",
                                       !.outcome = "ProviderCallFailed"]
             /\ UNCHANGED <<kv, nextId, opinions, promoCalls, age, moved, request, taskVars, llmVars>>
        ELSE \E topic \in Topics, analysis_result \in AnalysisResults,
                current_symbols \in SymbolLists, okSet \in BOOLEAN :
             LET confidence == CalculateConfidence(analysis_result)
                 opinion == NewOpinion(UUIDObj(nextId), topic, confidence)
                 memId == UUIDObj(nextId + 1)
                 persist == ShouldPersist(confidence)
             IN  /\ nextId + 1 <= MaxIds
                 /\ Cardinality(DOMAIN opinions) < MaxOpinions
                 /\ kv' = IF persist
                          THEN AddToShortTermStore(kv, memId, OpinionContent(opinion),
                                   "opinion_formation",
                                   <<PyStr(topic)>> \o current_symbols, okSet)
                          ELSE kv
                 /\ nextId' = IF persist THEN nextId + 2 ELSE nextId + 1
                 /\ age' = IF persist /\ okSet THEN Extend(age, memId.n, 0) ELSE age
                 /\ opinions' = Extend(opinions, nextId,
                        [confidence |-> confidence, validation_count |-> 1,
                         evidence |-> opinion.evidence,
                         updates |-> 0, stored |-> persist /\ okSet,
                         mem |-> IF persist THEN memId.n ELSE 0])
                 /\ last' = [NoCall EXCEPT !.op = "form_opinion", !.arg = nextId,
                                           !.outcome = "ok", !.opinion = <<opinion>>,
                                           !.analysis = <<analysis_result>>,
                                           !.wrote = persist /\ okSet]
                 /\ UNCHANGED <<promoCalls, moved, request, taskVars, llmVars>>

\* the opinion an update_opinion(opinion_id) call is about: the one whose
\* snapshot it loaded, else the one formed under that id
Target(opinion_id, found) ==
    IF found # <<>> /\ "id" \in DOMAIN found[1].content
    THEN found[1].content.id.n
    ELSE IF opinion_id.n \in DOMAIN opinions THEN opinion_id.n ELSE 0

\* OpinionSystem.update_opinion(opinion_id, new_evidence); the reads of its
\* retrieval succeed (a failing read is explored under RetrieveMemoryCall)
UpdateOpinion ==
    \E k \in 0..(nextId - 1), getOk \in {TRUE} :
    \E found \in Retrievals(kv, [id |-> Scalar(StrOfUUID(UUIDObj(k)))], "all", 1, getOk) :
        LET opinion_id == UUIDObj(k)
            target == Target(opinion_id, found)
        IN  /\ IF found = <<>>
               THEN \* raise ValueError("Opinion ... not found")
                    /\ last' = [NoCall EXCEPT !.op = "update_opinion", !.arg = k,
                                              !.outcome = "NotFound", !.readOk = getOk,
                                              !.target = target]
                    /\ UNCHANGED <<kv, nextId, opinions, promoCalls, age, moved, request, taskVars, llmVars>>
               ELSE IF "id" \notin DOMAIN found[1].content
               THEN \* memory_content["id"] raises KeyError
                    /\ last' = [NoCall EXCEPT !.op = "update_opinion", !.arg = k,
                                              !.outcome = "KeyError", !.readOk = getOk]
                    /\ UNCHANGED <<kv, nextId, opinions, promoCalls, age, moved, request, taskVars, llmVars>>
               ELSE \E new_evidence \in EvidenceLists, okSet \in BOOLEAN :
                    LET memory_content == [found[1].content EXCEPT !.id = UUIDOfStr(@)]
                        validation_count == memory_content.validation_count + 1
                        new_confidence == RecalculateConfidence(memory_content.confidence,
                                              validation_count, new_evidence)
                        current_opinion ==
                            [memory_content EXCEPT
                                !.evidence = EvidenceExtend(@, new_evidence),
                                !.validation_count = validation_count,
                                !.confidence = new_confidence]
                        \* opinions[0]: its content dict now holds the UUID and
                        \* shares the extended evidence list with current_opinion
                        loadedItem == [found[1] EXCEPT !.content =
                            [memory_content EXCEPT !.evidence = EvidenceExtend(@, new_evidence)]]
                        memId == UUIDObj(nextId)
                        written == AddToShortTermStore(kv, memId,
                                       OpinionContent(current_opinion),
                                       "opinion_update", <<PyStr(current_opinion.topic)>>,
                                       okSet)
                        promote == ShouldPromote(new_confidence, validation_count)
                    IN  /\ nextId <= MaxIds
                        /\ memory_content.confidence[2] <= MaxDenominator
                        /\ IF promote
                           THEN \E okDel, okSetCore \in BOOLEAN :
                                  kv' = MoveToCoreStore(written, loadedItem, okDel, okSetCore)
                           ELSE kv' = written
                        /\ nextId' = nextId + 1
                        /\ age' = IF okSet THEN Extend(age, memId.n, 0) ELSE age
                        /\ moved' = IF promote
                                    THEN moved \cup {loadedItem.id.items[1].n} ELSE moved
                        /\ promoCalls' = IF promote THEN promoCalls \cup {target}
                                         ELSE promoCalls
                        /\ opinions' = [opinions EXCEPT ![target] =
                               [@ EXCEPT !.confidence = new_confidence,
                                         !.validation_count = validation_count,
                                         !.evidence = current_opinion.evidence,
                                         !.updates = @ + 1]]
                        /\ UNCHANGED <<request, taskVars, llmVars>>
                        /\ last' = [NoCall EXCEPT !.op = "update_opinion", !.arg = k,
                                      !.outcome = "ok", !.opinion = <<current_opinion>>,
                                      !.loaded = <<found[1].content>>,
                                      !.evidence = new_evidence, !.readOk = getOk,
                                      !.wrote = okSet, !.target = target]

\* MemorySystem.add_to_short_term called with a record that is not an
\* opinion (LearningSystem.learn_from_feedback)
LearnFromFeedback ==
    \E symbol \in {"AAPL", "unknown"}, okSet \in BOOLEAN :
        LET memId == UUIDObj(nextId)
        IN  /\ nextId <= MaxRecords
            /\ kv' = AddToShortTermStore(kv, memId,
                        [data_context |-> symbol, outcome |-> "outcome"],
                        "feedback_learning", <<PyStr("learning"), PyStr(symbol)>>, okSet)
            /\ nextId' = nextId + 1
            /\ age' = IF okSet THEN Extend(age, memId.n, 0) ELSE age
            /\ last' = [NoCall EXCEPT !.op = "learn_from_feedback", !.arg = nextId,
                                      !.outcome = "ok", !.wrote = okSet]
            /\ UNCHANGED <<opinions, promoCalls, moved, request, taskVars, llmVars>>

\* a caller's MemorySystem.retrieve_memory(query, memory_type, limit)
RetrieveMemoryCall ==
    \E getOk \in BOOLEAN :
    \E items \in Retrievals(kv, request.query, request.memory_type, request.limit, getOk) :
        /\ last' = [NoCall EXCEPT !.op = "retrieve_memory", !.outcome = "ok",
                      !.readOk = getOk, !.items = items]
        /\ UNCHANGED <<kv, nextId, opinions, promoCalls, age, moved, request, taskVars, llmVars>>

\* the store's clock: d seconds pass; a key whose ttl has run out is gone
Elapse(store, d) ==
    [k \in {x \in DOMAIN store : store[x].ttl > d} |->
        [store[k] EXCEPT !.ttl = @ - d]]

\* the clock moves to the next expiry
NextExpiry(store) ==
    {store[k].ttl : k \in {x \in DOMAIN store :
                              \A y \in DOMAIN store : store[x].ttl <= store[y].ttl}}

Tick ==
    \E d \in NextExpiry(kv) :
        /\ kv' = Elapse(kv, d)
        /\ age' = [m \in DOMAIN age |->
                     IF age[m] + d < ShortTermTTL THEN age[m] + d ELSE ShortTermTTL]
        /\ last' = [NoCall EXCEPT !.op = "tick"]
        /\ UNCHANGED <<nextId, opinions, promoCalls, moved, request, taskVars, llmVars>>

\* a caller's MemorySystem.move_to_core(memory_item) on a record it retrieved
\* from the short-term tier and has not promoted before; the store calls
\* never raise, so the except branch is never taken
MoveToCoreCall ==
    \E key \in {k \in DOMAIN kv : k[1] = short_term_cache_prefix /\ k[2] \notin moved},
       okDel, okSet \in BOOLEAN :
        LET memory_item == kv[key].value
        IN  /\ kv' = MoveToCoreStore(kv, memory_item, okDel, okSet)
            /\ moved' = moved \cup {memory_item.id.items[1].n}
            /\ last' = [NoCall EXCEPT !.op = "move_to_core", !.arg = key[2],
                                      !.outcome = "True", !.wrote = okSet]
            /\ UNCHANGED <<nextId, opinions, promoCalls, age, request, taskVars, llmVars>>

OpinionNext ==
    \/ FormOpinion
    \/ UpdateOpinion
    \/ Tick

MemoryNext ==
    \/ LearnFromFeedback
    \/ MoveToCoreCall
    \/ RetrieveMemoryCall
    \/ Tick


(***************************************************************************)
(* CHAETRA: the processing pipeline and the feedback entry point.  Each    *)
(* generate_text call of a stage either returns or raises                  *)
(* ProviderCallFailed (the gateway itself is specified under SpecLLM).     *)
(***************************************************************************)
\* ReasoningSystem.min_confidence = 0.7
reasoning_min_confidence == Rat(7, 10)
\* formed_opinion.confidence > 0.7
SuggestConfidence == Rat(7, 10)
\* the user goals for which a trading suggestion is generated
SuggestGoals == {"find_buy_opportunity", "find_sell_opportunity", "assess_trade"}
\* temperature= of the generate_text calls
AnalysisTemperature == Rat(3, 10)
OpinionTemperature == Rat(3, 10)
SuggestionTemperature == Rat(2, 10)

\* query_intent: user_goal, query_type and entities.symbols; "" is a
\* missing field
QueryIntents ==
    [user_goal : SuggestGoals \cup {"learn_concept", ""},
     query_type : {"technical_analysis", ""},
     symbols : {<<>>, <<PyStr("AAPL")>>}]

\* the result dict of analyze_data carrying a data_quality_score of 0.5
AnalyzeDataResultWithQuality(query_intent) ==
    [analysis_summary |-> "summary",
     query_type |-> IF query_intent.query_type # "" THEN query_intent.query_type
                    ELSE "general",
     confidence |-> reasoning_min_confidence,
     data_quality_score |-> Rat(1, 2)]

\* the result dict of ReasoningSystem.analyze_data
AnalyzeDataResult(query_intent) ==
    [analysis_summary |-> "summary",
     query_type |-> IF query_intent.query_type # "" THEN query_intent.query_type
                    ELSE "general",
     confidence |-> reasoning_min_confidence]

\* the topic string the pipeline passes to form_opinion
TopicOf(query_intent) ==
    CASE query_intent.symbols # <<>> /\ query_intent.query_type # ""
            -> "AAPL (technical_analysis)"
      [] query_intent.symbols # <<>> /\ query_intent.query_type = ""
            -> "AAPL ()"
      [] query_intent.symbols = <<>> /\ query_intent.query_type # ""
            -> "technical_analysis (technical_analysis)"
      [] OTHER -> "general_market ()"

\* the condition of step 3 with >= in place of >
WantsSuggestionAtLeast(query_intent, confidence) ==
    \/ query_intent.user_goal \in SuggestGoals
    \/ Geq(confidence, SuggestConfidence)

\* the condition of step 3: user_goal in [...] or formed_opinion.confidence > 0.7
WantsSuggestion(query_intent, confidence) ==
    \/ query_intent.user_goal \in SuggestGoals
    \/ Lt(SuggestConfidence, confidence)

\* the dict generate_trading_suggestion returns
TradingSuggestion ==
    [suggestion |-> "suggestion", risk_profile |-> "moderate",
     confidence |-> reasoning_min_confidence]

\* the pipeline with a failed generate_trading_suggestion taken as no suggestion
RaisingStageLenient(llmAnalyze, llmOpinion, suggest, llmSuggest) ==
    IF ~llmAnalyze THEN "analyze_data"
    ELSE IF ~llmOpinion THEN "form_opinion"
    ELSE ""

\* the stage whose generate_text call raises out of the pipeline ("" when
\* none does): no stage call is wrapped in try
RaisingStage(llmAnalyze, llmOpinion, suggest, llmSuggest) ==
    IF ~llmAnalyze THEN "analyze_data"
    ELSE IF ~llmOpinion THEN "form_opinion"
    ELSE IF suggest /\ ~llmSuggest THEN "generate_trading_suggestion"
    ELSE ""

\* CHAETRA.process_data_and_generate_analysis(input_data, query_intent,
\* request_context)
ProcessDataAndGenerateAnalysis ==
    \E query_intent \in QueryIntents, current_symbols \in SymbolLists,
       llmAnalyze, llmOpinion, llmSuggest \in BOOLEAN,
       okSetAnalysis, okSetOpinion, okSetSession \in BOOLEAN :
        LET \* 1. analyze_data: generate_text, then the analysis record
            analysis_result == AnalyzeDataResult(query_intent)
            analysisId == UUIDObj(nextId)
            kvAnalysis == AddToShortTermStore(kv, analysisId, analysis_result,
                              "reasoning_analysis",
                              <<PyStr(analysis_result.query_type)>> \o current_symbols,
                              okSetAnalysis)
            \* 2. form_opinion
            confidence == CalculateConfidence(analysis_result)
            opinion == NewOpinion(UUIDObj(nextId + 1), TopicOf(query_intent), confidence)
            persist == ShouldPersist(confidence)
            opinionMemId == UUIDObj(nextId + 2)
            kvOpinion == IF persist
                         THEN AddToShortTermStore(kvAnalysis, opinionMemId,
                                  OpinionContent(opinion), "opinion_formation",
                                  <<PyStr(opinion.topic)>> \o current_symbols,
                                  okSetOpinion)
                         ELSE kvAnalysis
            \* 3. the trading suggestion
            suggest == WantsSuggestion(query_intent, confidence)
            trading_suggestion == IF suggest THEN <<TradingSuggestion>> ELSE <<>>
            \* 4. the analysis_session record
            sessionId == UUIDObj(IF persist THEN nextId + 3 ELSE nextId + 2)
            kvSession == AddToShortTermStore(kvOpinion, sessionId,
                             [type |-> "analysis_session",
                              analysis_summary |-> analysis_result.analysis_summary,
                              opinion_belief |-> opinion.belief,
                              opinion_confidence |-> opinion.confidence,
                              trading_suggestion |-> trading_suggestion],
                             "chaetra_processing",
                             query_intent.symbols \o
                                <<PyStr(IF query_intent.query_type # ""
                                        THEN query_intent.query_type ELSE "analysis")>>,
                             okSetSession)
            raised == RaisingStage(llmAnalyze, llmOpinion, suggest, llmSuggest)
            reachedOpinion == raised # "analyze_data"
            formed == raised \notin {"analyze_data", "form_opinion"}
            calls == <<[temperature |-> AnalysisTemperature, ok |-> llmAnalyze]>>
                     \o (IF reachedOpinion
                         THEN <<[temperature |-> OpinionTemperature, ok |-> llmOpinion]>>
                         ELSE <<>>)
                     \o (IF formed /\ suggest
                         THEN <<[temperature |-> SuggestionTemperature, ok |-> llmSuggest]>>
                         ELSE <<>>)
            ageAnalysis == IF reachedOpinion /\ okSetAnalysis
                           THEN Extend(age, analysisId.n, 0) ELSE age
            ageOpinion == IF formed /\ persist /\ okSetOpinion
                          THEN Extend(ageAnalysis, opinionMemId.n, 0) ELSE ageAnalysis
        IN  /\ nextId + 3 <= MaxIds
            /\ Cardinality(DOMAIN opinions) < MaxOpinions
            /\ kv' = CASE raised = "analyze_data" -> kv
                       [] raised = "form_opinion" -> kvAnalysis
                       [] raised = "generate_trading_suggestion" -> kvOpinion
                       [] OTHER -> kvSession
            /\ nextId' = CASE raised = "analyze_data" -> nextId
                           [] raised = "form_opinion" -> nextId + 1
                           [] raised = "generate_trading_suggestion" -> sessionId.n
                           [] OTHER -> sessionId.n + 1
            /\ age' = IF raised = "" /\ okSetSession
                      THEN Extend(ageOpinion, sessionId.n, 0) ELSE ageOpinion
            /\ opinions' = IF formed
                           THEN Extend(opinions, opinion.id.n,
                                    [confidence |-> confidence, validation_count |-> 1,
                                     evidence |-> opinion.evidence, updates |-> 0,
                                     stored |-> persist /\ okSetOpinion,
                                     mem |-> IF persist THEN opinionMemId.n ELSE 0])
                           ELSE opinions
            /\ last' = [NoCall EXCEPT
                          !.op = "process_data_and_generate_analysis",
                          !.outcome = IF raised = "" THEN "ok" ELSE "ProviderCallFailed",
                          !.arg = IF formed THEN opinion.id.n ELSE 0,
                          !.opinion = IF formed THEN <<opinion>> ELSE <<>>,
                          !.wrote = raised = "" /\ okSetSession,
                          !.run = <<[query_intent |-> query_intent,
                                     calls |-> calls,
                                     raised |-> raised,
                                     session |-> IF raised = "" THEN sessionId.n ELSE 0,
                                     response |->
                                        IF raised = ""
                                        THEN <<[analysis |-> analysis_result,
                                                opinion |-> opinion,
                                                trading_suggestion |-> trading_suggestion]>>
                                        ELSE <<>>]>>]
            /\ UNCHANGED <<promoCalls, moved, request, taskVars, llmVars>>

\* CHAETRA.learn_from_interaction_outcome(interaction_data, actual_outcome):
\* LearningSystem has no attribute learn_from_outcome, so the call raises
\* AttributeError before anything is written; previous is the id of the
\* opinion in interaction_data, 0 when it carries none
LearnFromInteractionOutcome ==
    \E previous \in {0} \cup DOMAIN opinions, actual_outcome \in {Supporting, Contradicting, Unmarked} :
        /\ last' = [NoCall EXCEPT !.op = "learn_from_interaction_outcome",
                                  !.arg = previous, !.outcome = "AttributeError",
                                  !.evidence = <<actual_outcome>>]
        /\ UNCHANGED <<kv, nextId, opinions, promoCalls, age, moved, request, taskVars, llmVars>>

PipelineNext ==
    \/ ProcessDataAndGenerateAnalysis
    \/ LearnFromInteractionOutcome
    \/ Tick


(***************************************************************************)
(* Calls suspended at their store calls.  A task runs one call; between    *)
(* two of its store calls the other tasks may run.                         *)
(***************************************************************************)
\* move_to_core writing the core entry before it deletes the short-term one
MoveToCoreWriteFirst(store, memory_item, okDel) ==
    LET item == [memory_item EXCEPT !.memory_type = Scalar(PyStr("core"))]
    IN  KVSet(store, Key(core_memory_cache_prefix, memory_item.id.items[1]), item, 0, okDel)

\* move_to_core up to its first await: memory_type = "core", cache.delete
MoveToCoreDeleteStep(store, memory_item, okDel) ==
    KVDelete(store, Key(short_term_cache_prefix, memory_item.id.items[1]), okDel)

\* move_to_core from its second await: cache.set of the core entry
MoveToCoreWriteStep(store, memory_item, okSet) ==
    LET item == [memory_item EXCEPT !.memory_type = Scalar(PyStr("core"))]
    IN  KVSet(store, Key(core_memory_cache_prefix, memory_item.id.items[1]), item, 0, okSet)

\* task t enters move_to_core on a short-term record nobody has moved, and
\* is suspended after the delete
MoveToCoreBegin(t) ==
    /\ tasks[t].pc = "idle"
    /\ \E key \in {k \in DOMAIN kv : k[1] = short_term_cache_prefix /\ k[2] \notin moved},
          okDel \in BOOLEAN :
        LET memory_item == kv[key].value
        IN  /\ kv' = MoveToCoreDeleteStep(kv, memory_item, okDel)
            /\ moved' = moved \cup {key[2]}
            /\ tasks' = [tasks EXCEPT ![t] =
                            [NoTask EXCEPT !.op = "move_to_core", !.pc = "deleted",
                                           !.arg = key[2], !.item = <<memory_item>>,
                                           !.ok = okDel]]
            /\ last' = [NoCall EXCEPT !.op = "move_to_core", !.arg = key[2],
                                      !.outcome = "suspended"]
    /\ UNCHANGED <<nextId, opinions, promoCalls, age, request, singletons, llmVars>>

\* task t resumes: the core entry is written and move_to_core returns True
MoveToCoreFinish(t) ==
    /\ tasks[t].op = "move_to_core"
    /\ tasks[t].pc = "deleted"
    /\ \E okSet \in BOOLEAN :
        /\ kv' = MoveToCoreWriteStep(kv, tasks[t].item[1], okSet)
        /\ last' = [NoCall EXCEPT !.op = "move_to_core", !.arg = tasks[t].arg,
                                  !.outcome = "True", !.wrote = okSet]
    /\ tasks' = [tasks EXCEPT ![t] = NoTask]
    /\ UNCHANGED <<nextId, opinions, promoCalls, age, moved, request, singletons, llmVars>>

\* the process ends while task t is suspended between the delete and the
\* write: the task never resumes, the store stays as it is
MoveToCoreCrash(t) ==
    /\ tasks[t].op = "move_to_core"
    /\ tasks[t].pc = "deleted"
    /\ tasks' = [tasks EXCEPT ![t].pc = "crashed"]
    /\ last' = [NoCall EXCEPT !.op = "crash", !.arg = tasks[t].arg]
    /\ UNCHANGED <<kv, nextId, opinions, promoCalls, age, moved, request, singletons, llmVars>>

MoveNext ==
    \/ LearnFromFeedback
    \/ \E t \in TaskIds : MoveToCoreBegin(t)
    \/ \E t \in TaskIds : MoveToCoreFinish(t)
    \/ \E t \in TaskIds : MoveToCoreCrash(t)
    \/ RetrieveMemoryCall


\* update_opinion from the return of retrieve_memory to its add_to_short_term:
\* the Opinion rebuilt from the loaded content, with the evidence appended,
\* the count incremented and the confidence recalculated
CurrentOpinion(memory_item, new_evidence) ==
    LET memory_content == [memory_item.content EXCEPT !.id = UUIDOfStr(@)]
        validation_count == memory_content.validation_count + 1
    IN  [memory_content EXCEPT
            !.evidence = EvidenceExtend(@, new_evidence),
            !.validation_count = validation_count,
            !.confidence = RecalculateConfidence(memory_content.confidence,
                               validation_count, new_evidence)]

\* opinions[0] after the same lines: its content holds the UUID and shares
\* the extended evidence list
LoadedItem(memory_item, new_evidence) ==
    [memory_item EXCEPT !.content =
        [@ EXCEPT !.id = UUIDOfStr(@), !.evidence = EvidenceExtend(@, new_evidence)]]

\* the new_evidence task t passes: one supporting or one contradicting item
TaskEvidence(t) == IF t = 1 THEN <<Supporting>> ELSE <<Contradicting>>

\* the tasks suspended in update_opinion after loading the record memId
SuspendedOn(memId) ==
    {u \in TaskIds : /\ tasks[u].op = "update_opinion"
                     /\ tasks[u].pc = "loaded"
                     /\ tasks[u].arg = memId}

\* task t enters update_opinion(opinion_id, new_evidence): retrieve_memory
\* returns, and the task is suspended in add_to_short_term
UpdateOpinionLoad(t) ==
    /\ tasks[t].pc \in {"idle", "done"}
    /\ \E k \in 0..(nextId - 1), new_evidence \in {TaskEvidence(t)} :
       \E found \in Retrievals(kv, [id |-> Scalar(StrOfUUID(UUIDObj(k)))], "all", 1, TRUE) :
          IF found = <<>>
          THEN \* raise ValueError("Opinion ... not found")
               /\ tasks' = [tasks EXCEPT ![t] = NoTask]
               /\ last' = [NoCall EXCEPT !.op = "update_opinion", !.arg = k,
                                         !.outcome = "NotFound",
                                         !.target = Target(UUIDObj(k), found)]
          ELSE LET memId == found[1].id.items[1].n
                   others == SuspendedOn(memId) \ {t}
               IN  /\ tasks' = [u \in TaskIds |->
                          IF u = t
                          THEN [NoTask EXCEPT !.op = "update_opinion", !.pc = "loaded",
                                              !.arg = memId, !.item = found,
                                              !.loaded = <<found[1].content>>,
                                              !.evidence = new_evidence,
                                              !.peers = others]
                          ELSE IF u \in others
                          THEN [tasks[u] EXCEPT !.peers = @ \cup {t}]
                          ELSE tasks[u]]
                   /\ last' = last
    /\ UNCHANGED <<kv, nextId, opinions, promoCalls, age, moved, request, singletons, llmVars>>

\* task t resumes in add_to_short_term: the record of the updated opinion
\* is written under a fresh id; the call returns unless it promotes
UpdateOpinionWrite(t) ==
    /\ tasks[t].op = "update_opinion"
    /\ tasks[t].pc = "loaded"
    /\ nextId <= MaxIds
    /\ tasks[t].loaded[1].confidence[2] <= MaxDenominator
    /\ \E okSet \in BOOLEAN :
        LET current_opinion == CurrentOpinion(tasks[t].item[1], tasks[t].evidence)
            memId == UUIDObj(nextId)
            target == current_opinion.id.n
            promote == ShouldPromote(current_opinion.confidence,
                                     current_opinion.validation_count)
        IN  /\ kv' = AddToShortTermStore(kv, memId, OpinionContent(current_opinion),
                         "opinion_update", <<PyStr(current_opinion.topic)>>, okSet)
            /\ nextId' = nextId + 1
            /\ age' = IF okSet THEN Extend(age, memId.n, 0) ELSE age
            /\ opinions' = [opinions EXCEPT ![target] =
                   [@ EXCEPT !.confidence = current_opinion.confidence,
                             !.validation_count = current_opinion.validation_count,
                             !.evidence = current_opinion.evidence,
                             !.updates = @ + 1]]
            /\ tasks' = [tasks EXCEPT ![t] =
                   [@ EXCEPT !.pc = IF promote THEN "written" ELSE "done",
                             !.opinion = <<current_opinion>>,
                             !.ok = okSet,
                             !.returned = memId.n]]
            /\ last' = [NoCall EXCEPT !.op = "update_opinion", !.arg = tasks[t].arg,
                          !.outcome = IF promote THEN "suspended" ELSE "ok",
                          !.opinion = <<current_opinion>>,
                          !.loaded = tasks[t].loaded,
                          !.evidence = tasks[t].evidence,
                          !.wrote = okSet, !.target = target]
    /\ UNCHANGED <<promoCalls, moved, request, singletons, llmVars>>

\* task t resumes in move_to_core(opinions[0]) and the call returns
UpdateOpinionPromote(t) ==
    /\ tasks[t].op = "update_opinion"
    /\ tasks[t].pc = "written"
    /\ \E okDel, okSetCore \in BOOLEAN :
        LET loadedItem == LoadedItem(tasks[t].item[1], tasks[t].evidence)
        IN  /\ kv' = MoveToCoreStore(kv, loadedItem, okDel, okSetCore)
            /\ moved' = moved \cup {loadedItem.id.items[1].n}
            /\ promoCalls' = promoCalls \cup {tasks[t].opinion[1].id.n}
    /\ tasks' = [tasks EXCEPT ![t].pc = "done"]
    /\ last' = [NoCall EXCEPT !.op = "update_opinion", !.arg = tasks[t].arg,
                              !.outcome = "ok", !.opinion = tasks[t].opinion,
                              !.loaded = tasks[t].loaded,
                              !.evidence = tasks[t].evidence,
                              !.wrote = tasks[t].ok,
                              !.target = tasks[t].opinion[1].id.n]
    /\ UNCHANGED <<nextId, opinions, age, request, singletons, llmVars>>

UpdateNext ==
    \/ FormOpinion
    \/ \E t \in TaskIds : UpdateOpinionLoad(t)
    \/ \E t \in TaskIds : UpdateOpinionWrite(t)
    \/ \E t \in TaskIds : UpdateOpinionPromote(t)


(***************************************************************************)
(* The process-wide instances: CHAETRA._instance (brain.py) and the        *)
(* globals of dependencies.py.  Objects are numbered in the order they are *)
(* constructed; 0 is None.                                                 *)
(***************************************************************************)
\* LLMManager.create() reaches an await that suspends only in the lm_studio
\* branch of _initialize_providers (the aiohttp probe)
CreateSuspends == singletons.lm_studio

\* LLMManager.create() returns a manager when a provider initialized: one
\* configured through its settings, or lm_studio when its probe answered 200
CreateReturns(probeOk) == singletons.configured \/ (singletons.lm_studio /\ probeOk)

\* get_instance from the assignment of cls._instance on: a new CHAETRA is
\* constructed and stored, whatever cls._instance holds by now
AssignInstance(s) ==
    [s EXCEPT !.chaetra = s.created + 1, !.created = s.created + 1]

\* get_instance called with every collaborator passed in: nothing is awaited
GetInstanceGiven(s) == IF s.chaetra = 0 THEN AssignInstance(s) ELSE s

\* setup_dependencies from the assignment of llm_manager_instance on, built
\* telling whether this entry created a manager
SetupRest(s, built) ==
    LET withManager == IF built
                       THEN [s EXCEPT !.llm_manager = s.managers + 1,
                                      !.managers = s.managers + 1]
                       ELSE s
        withBrain == GetInstanceGiven(withManager)
    IN  IF withManager.brain = 0
        THEN [withBrain EXCEPT !.brain = withBrain.chaetra]
        ELSE withManager

\* what a task holds after its call returned or raised
Returned(op, value) ==
    [NoTask EXCEPT !.op = op, !.pc = "done", !.returned = value]
Raised(op) == [NoTask EXCEPT !.op = op, !.pc = "raised"]
\* a task that is in no call may start one
Callable(t) == tasks[t].pc \in {"idle", "done", "raised"}

\* task t calls CHAETRA.get_instance(memory_system=...) without llm_manager
GetInstanceCall(t) ==
    /\ Callable(t)
    /\ IF singletons.chaetra # 0
       THEN /\ tasks' = [tasks EXCEPT ![t] = Returned("get_instance", singletons.chaetra)]
            /\ singletons' = singletons
            /\ last' = [NoCall EXCEPT !.op = "get_instance", !.arg = singletons.chaetra,
                                      !.outcome = "ok"]
       ELSE IF CreateSuspends
       THEN /\ tasks' = [tasks EXCEPT ![t] =
                            [NoTask EXCEPT !.op = "get_instance", !.pc = "creating"]]
            /\ UNCHANGED <<singletons, last>>
       ELSE IF CreateReturns(FALSE)
       THEN /\ singletons' = AssignInstance(singletons)
            /\ tasks' = [tasks EXCEPT ![t] =
                            Returned("get_instance", singletons'.chaetra)]
            /\ last' = [NoCall EXCEPT !.op = "get_instance", !.arg = singletons'.chaetra,
                                      !.outcome = "ok"]
       ELSE /\ tasks' = [tasks EXCEPT ![t] = Raised("get_instance")]
            /\ singletons' = singletons
            /\ last' = [NoCall EXCEPT !.op = "get_instance", !.outcome = "ValueError"]
    /\ UNCHANGED <<kv, nextId, opinions, promoCalls, age, moved, request, llmVars>>

\* LLMManager.create() of task t completes: get_instance assigns and returns
GetInstanceResume(t) ==
    /\ tasks[t].op = "get_instance"
    /\ tasks[t].pc = "creating"
    /\ \E probeOk \in BOOLEAN :
        IF CreateReturns(probeOk)
        THEN /\ singletons' = AssignInstance(singletons)
             /\ tasks' = [tasks EXCEPT ![t] =
                             Returned("get_instance", singletons'.chaetra)]
             /\ last' = [NoCall EXCEPT !.op = "get_instance", !.arg = singletons'.chaetra,
                                       !.outcome = "ok"]
        ELSE /\ tasks' = [tasks EXCEPT ![t] = Raised("get_instance")]
             /\ singletons' = singletons
             /\ last' = [NoCall EXCEPT !.op = "get_instance", !.outcome = "ValueError"]
    /\ UNCHANGED <<kv, nextId, opinions, promoCalls, age, moved, request, llmVars>>

\* task t enters setup_dependencies()
SetupDependenciesCall(t) ==
    /\ Callable(t)
    /\ IF singletons.llm_manager # 0
       THEN /\ singletons' = SetupRest(singletons, FALSE)
            /\ tasks' = [tasks EXCEPT ![t] =
                            Returned("setup_dependencies", singletons.llm_manager)]
            /\ last' = [NoCall EXCEPT !.op = "setup_dependencies", !.outcome = "ok"]
       ELSE IF CreateSuspends
       THEN /\ tasks' = [tasks EXCEPT ![t] =
                            [NoTask EXCEPT !.op = "setup_dependencies", !.pc = "creating"]]
            /\ UNCHANGED <<singletons, last>>
       ELSE IF CreateReturns(FALSE)
       THEN /\ singletons' = SetupRest(singletons, TRUE)
            /\ tasks' = [tasks EXCEPT ![t] =
                            Returned("setup_dependencies", singletons'.llm_manager)]
            /\ last' = [NoCall EXCEPT !.op = "setup_dependencies", !.outcome = "ok"]
       ELSE /\ tasks' = [tasks EXCEPT ![t] = Raised("setup_dependencies")]
            /\ singletons' = singletons
            /\ last' = [NoCall EXCEPT !.op = "setup_dependencies",
                                      !.outcome = "ValueError"]
    /\ UNCHANGED <<kv, nextId, opinions, promoCalls, age, moved, request, llmVars>>

\* LLMManager.create() of task t completes: setup_dependencies assigns
\* llm_manager_instance and runs to its end
SetupDependenciesResume(t) ==
    /\ tasks[t].op = "setup_dependencies"
    /\ tasks[t].pc = "creating"
    /\ \E probeOk \in BOOLEAN :
        IF CreateReturns(probeOk)
        THEN /\ singletons' = SetupRest(singletons, TRUE)
             /\ tasks' = [tasks EXCEPT ![t] =
                             Returned("setup_dependencies", singletons'.llm_manager)]
             /\ last' = [NoCall EXCEPT !.op = "setup_dependencies", !.outcome = "ok"]
        ELSE /\ tasks' = [tasks EXCEPT ![t] = Raised("setup_dependencies")]
             /\ singletons' = singletons
             /\ last' = [NoCall EXCEPT !.op = "setup_dependencies",
                                       !.outcome = "ValueError"]
    /\ UNCHANGED <<kv, nextId, opinions, promoCalls, age, moved, request, llmVars>>

SingletonNext ==
    \/ \E t \in TaskIds : GetInstanceCall(t)
    \/ \E t \in TaskIds : GetInstanceResume(t)
    \/ \E t \in TaskIds : SetupDependenciesCall(t)
    \/ \E t \in TaskIds : SetupDependenciesResume(t)


(***************************************************************************)
(* Generation gateway (LLMManager) and intent parsing (CHAETRA).           *)
(***************************************************************************)

\* settings.LLM_PROVIDER_ORDER
provider_order == <<"gemini", "openai", "lm_studio", "ollama">>
ProviderNames == Range(provider_order)
\* provider_name arguments: None, the configured names, a name not configured
RequestedNames == {""} \cup ProviderNames \cup {"other"}

\* the loop of LLMManager.create without its break: the last hit stays
LastInOrder(initialized) ==
    LET hits == {i \in DOMAIN provider_order : provider_order[i] \in initialized}
    IN  IF hits = {} THEN ""
        ELSE provider_order[CHOOSE i \in hits : \A j \in hits : j <= i]

\* the loop of LLMManager.create over provider_order
FirstInOrder(initialized) ==
    LET hits == {i \in DOMAIN provider_order : provider_order[i] \in initialized}
    IN  IF hits = {} THEN ""
        ELSE provider_order[CHOOSE i \in hits : \A j \in hits : i <= j]

\* LLMManager._get_provider(provider_name); "" is None
GetProvider(provs, default, provider_name) ==
    IF provider_name # "" /\ provider_name \in provs THEN provider_name
    ELSE IF default \in provs THEN default ELSE ""

(***************************************************************************)
(* Provider texts: sequences of characters.  A JSON document is one        *)
(* element of the text, named by its content.                              *)
(***************************************************************************)
\* the backtick character
BT == "BACKTICK"
Fence == <<BT, BT, BT>>
FenceJson == Fence \o <<"j", "s", "o", "n">>
FenceJSON == Fence \o <<"J", "S", "O", "N">>
FenceJson2 == Fence \o <<"J", "s", "o", "n">>
Whitespace == {" ", "\n"}

\* json.loads of each document
JsonValue ==
    [doc \in {"{\"a\": 1}", "[1]", "intent", "intent_entities_str", "intent_symbols_str"} |->
        CASE doc = "{\"a\": 1}" -> [kind |-> "dict", a |-> 1]
          [] doc = "[1]" -> [kind |-> "list"]
          [] doc = "intent" ->
                [kind |-> "dict", query_type |-> "technical_analysis",
                 user_goal |-> "assess_trade",
                 entities |-> [kind |-> "dict",
                               symbols |-> [kind |-> "list", items |-> <<"AAPL">>],
                               indicators |-> [kind |-> "list", items |-> <<"RSI">>],
                               keywords |-> [kind |-> "list", items |-> <<>>]]]
          [] doc = "intent_entities_str" ->
                [kind |-> "dict", query_type |-> "stock_price",
                 user_goal |-> "assess risk", entities |-> [kind |-> "str"]]
          [] doc = "intent_symbols_str" ->
                [kind |-> "dict", query_type |-> "stock_price",
                 user_goal |-> "assess risk",
                 entities |-> [kind |-> "dict", symbols |-> [kind |-> "str"],
                               keywords |-> [kind |-> "list", items |-> <<"risk">>]]]]
JsonDocs == DOMAIN JsonValue

\* str.lower()
Lower(c) ==
    CASE c = "J" -> "j" [] c = "S" -> "s" [] c = "O" -> "o" [] c = "N" -> "n"
      [] OTHER -> c
LowerSeq(text) == [i \in DOMAIN text |-> Lower(text[i])]
StartsWith(text, prefix) ==
    Len(text) >= Len(prefix) /\ SubSeq(text, 1, Len(prefix)) = prefix
EndsWith(text, suffix) ==
    Len(text) >= Len(suffix)
    /\ SubSeq(text, Len(text) - Len(suffix) + 1, Len(text)) = suffix
\* str.strip()
RECURSIVE LStrip(_)
LStrip(text) ==
    IF text # <<>> /\ Head(text) \in Whitespace THEN LStrip(Tail(text)) ELSE text
RECURSIVE RStrip(_)
RStrip(text) ==
    IF text # <<>> /\ text[Len(text)] \in Whitespace
    THEN RStrip(SubSeq(text, 1, Len(text) - 1)) ELSE text
Strip(text) == RStrip(LStrip(text))

\* json.loads(text): <<value>>, or <<>> for JSONDecodeError; whitespace
\* around the document is accepted
JsonLoads(text) ==
    LET body == Strip(text)
    IN  IF Len(body) = 1 /\ body[1] \in JsonDocs THEN <<JsonValue[body[1]]>> ELSE <<>>

\* the fence removal of generate_structured_output
StripFences(raw) ==
    LET response == Strip(raw)
        afterPrefix == IF StartsWith(LowerSeq(response), FenceJson)
                       THEN SubSeq(response, 8, Len(response)) ELSE response
    IN  IF EndsWith(LowerSeq(afterPrefix), Fence)
        THEN SubSeq(afterPrefix, 1, Len(afterPrefix) - 3) ELSE afterPrefix

\* texts a provider may answer with
Bodies == {<<d>> : d \in JsonDocs} \cup {<<"n", "o", "t">>, <<>>}
Texts ==
    {lead \o open \o gap1 \o body \o gap2 \o close :
        lead \in {<<>>, <<" ">>},
        open \in {<<>>, FenceJson, FenceJSON, FenceJson2, Fence},
        gap1 \in {<<>>, <<"\n">>},
        body \in Bodies,
        gap2 \in {<<>>, <<"\n">>},
        close \in {<<>>, Fence}}


(***************************************************************************)
(* Gateway calls.                                                          *)
(***************************************************************************)
NoGw ==
    [op |-> "none", pc |-> "idle", requested |-> "", invoked |-> <<>>,
     results |-> <<>>, outcome |-> "", text |-> <<>>, response |-> <<>>,
     value |-> <<>>, error |-> "", intent |-> <<>>, gatewayRaised |-> FALSE,
     context |-> <<>>, sent |-> <<>>]

LLMInit ==
    /\ providers = {}
    /\ default_provider_name = ""
    /\ gw = NoGw

Idle == gw.pc \in {"idle", "done"}
Created == default_provider_name # ""

\* LLMManager.create(): the providers that initialize are the environment's choice
LLMCreate ==
    /\ ~Created
    /\ Idle
    /\ \E initialized \in SUBSET ProviderNames :
        IF initialized = {}
        THEN /\ gw' = [NoGw EXCEPT !.op = "create", !.pc = "done", !.outcome = "raised",
                                   !.error = "No LLM providers configured."]
             /\ UNCHANGED <<providers, default_provider_name>>
        ELSE /\ providers' = initialized
             /\ default_provider_name' = FirstInOrder(initialized)
             /\ gw' = [NoGw EXCEPT !.op = "create", !.pc = "done", !.outcome = "ok"]
    /\ UNCHANGED memVars

\* str(e) of what a provider call raises; a timeout carries no message
ProviderErrors == {"ProviderError", ""}
\* what an awaited provider.generate_text does: returns a text or raises
ProviderAnswers(texts) ==
    {[ok |-> TRUE, text |-> t, message |-> ""] : t \in texts}
    \cup {[ok |-> FALSE, text |-> <<>>, message |-> m] : m \in ProviderErrors}

\* entry of LLMManager.generate_text and generate_structured_output: the
\* provider is resolved and invoked
Invoke(op, requested) ==
    LET provider == GetProvider(providers, default_provider_name, requested)
    IN  IF provider = ""
        THEN [NoGw EXCEPT !.op = op, !.pc = "done", !.requested = requested,
                          !.outcome = "raised", !.error = "No provider available"]
        ELSE [NoGw EXCEPT !.op = op, !.pc = "calling", !.requested = requested,
                          !.invoked = <<provider>>]

\* LLMManager.generate_text(prompt, context, temperature, provider_name): entry
GenerateText ==
    /\ Created
    /\ Idle
    /\ \E requested \in RequestedNames : gw' = Invoke("generate_text", requested)
    /\ UNCHANGED <<providers, default_provider_name, memVars>>

\* generate_text falling back without comparing the failing provider with
\* the default
GenerateTextStepAlwaysRetry(call, answer) ==
    LET default_provider == GetProvider(providers, default_provider_name, "")
    IN  IF answer.ok
        THEN [call EXCEPT !.pc = "done", !.outcome = "ok", !.text = answer.text,
                          !.results = Append(@, TRUE)]
        ELSE IF call.pc = "calling" /\ default_provider # ""
        THEN [call EXCEPT !.pc = "retrying", !.results = Append(@, FALSE),
                          !.invoked = Append(@, default_provider)]
        ELSE [call EXCEPT !.pc = "done", !.outcome = "raised",
                          !.error = answer.message, !.results = Append(@, FALSE)]

\* what generate_text does when the provider call it awaits returns or raises
GenerateTextStep(call, answer) ==
    LET provider == call.invoked[Len(call.invoked)]
        default_provider == GetProvider(providers, default_provider_name, "")
    IN  IF answer.ok
        THEN [call EXCEPT !.pc = "done", !.outcome = "ok", !.text = answer.text,
                          !.results = Append(@, TRUE)]
        ELSE IF call.pc = "calling" /\ provider # default_provider_name
                /\ default_provider # ""
        THEN [call EXCEPT !.pc = "retrying", !.results = Append(@, FALSE),
                          !.invoked = Append(@, default_provider)]
        ELSE [call EXCEPT !.pc = "done", !.outcome = "raised",
                          !.error = answer.message, !.results = Append(@, FALSE)]

TextProviderResponds ==
    /\ gw.op = "generate_text"
    /\ gw.pc \in {"calling", "retrying"}
    /\ \E answer \in ProviderAnswers(Bodies) : gw' = GenerateTextStep(gw, answer)
    /\ UNCHANGED <<providers, default_provider_name, memVars>>

\* LLMManager.generate_structured_output(prompt, schema, provider_name): entry
GenerateStructuredOutput ==
    /\ Created
    /\ Idle
    /\ \E requested \in RequestedNames :
        gw' = Invoke("generate_structured_output", requested)
    /\ UNCHANGED <<providers, default_provider_name, memVars>>

\* generate_structured_output once provider.generate_text has returned the
\* text or raised
StructuredResult(answer) ==
    IF ~answer.ok
    THEN [outcome |-> "raised", value |-> <<>>, error |-> answer.message]
    ELSE LET parsed == JsonLoads(StripFences(answer.text))
         IN  IF parsed = <<>>
             THEN [outcome |-> "raised", value |-> <<>>,
                   error |-> "LLM response could not be parsed as JSON"]
             ELSE [outcome |-> "ok", value |-> parsed, error |-> ""]

EmptyList == [kind |-> "list", items |-> <<>>]
ListKeys == {"symbols", "indicators", "keywords"}
\* the except branch returning the dict without "error"
DegradedWithoutError(message) ==
    [kind |-> "dict", query_type |-> "unknown", entities |-> [kind |-> "dict"],
     user_goal |-> "unknown"]

\* the dict the except branch of understand_query_intent returns
Degraded(message) ==
    [kind |-> "dict", query_type |-> "unknown", entities |-> [kind |-> "dict"],
     user_goal |-> "unknown", error |-> message]

\* the try/except of understand_query_intent around the gateway call
UnderstandResult(result) ==
    IF result.outcome = "raised" THEN Degraded(result.error)
    ELSE LET structured_intent == result.value[1]
         IN  IF structured_intent.kind # "dict"
             THEN \* .get on a value that is no dict raises AttributeError
                  Degraded("AttributeError")
             ELSE LET given == IF "entities" \in DOMAIN structured_intent
                                  /\ structured_intent.entities.kind = "dict"
                               THEN structured_intent.entities ELSE [kind |-> "dict"]
                      entities ==
                          [key \in DOMAIN given \cup ListKeys |->
                              IF key \in ListKeys
                              THEN IF key \in DOMAIN given /\ given[key].kind = "list"
                                   THEN given[key] ELSE EmptyList
                              ELSE given[key]]
                  IN  [key \in DOMAIN structured_intent \cup {"entities"} |->
                          IF key = "entities" THEN entities ELSE structured_intent[key]]

\* CHAETRA.understand_query_intent(query_text, chat_context, provider_name):
\* entry, up to the provider call inside generate_structured_output
UnderstandQueryIntent ==
    /\ Created
    /\ Idle
    /\ \E requested \in RequestedNames :
        LET call == Invoke("understand_query_intent", requested)
        IN  gw' = IF call.outcome = "raised"
                  THEN [call EXCEPT !.outcome = "ok", !.gatewayRaised = TRUE,
                                    !.intent = <<Degraded(call.error)>>]
                  ELSE call
    /\ UNCHANGED <<providers, default_provider_name, memVars>>

StructuredProviderResponds ==
    /\ gw.op \in {"generate_structured_output", "understand_query_intent"}
    /\ gw.pc = "calling"
    /\ \E answer \in ProviderAnswers(Texts) :
        LET result == StructuredResult(answer)
            answered == [gw EXCEPT !.pc = "done", !.results = Append(@, answer.ok),
                                   !.response = answer.text]
        IN  IF gw.op = "generate_structured_output"
            THEN gw' = [answered EXCEPT !.outcome = result.outcome,
                                        !.value = result.value,
                                        !.error = result.error]
            ELSE gw' = [answered EXCEPT !.outcome = "ok",
                                        !.gatewayRaised = result.outcome = "raised",
                                        !.error = result.error,
                                        !.intent = <<UnderstandResult(result)>>]
    /\ UNCHANGED <<providers, default_provider_name, memVars>>

LLMNext ==
    \/ LLMCreate
    \/ GenerateText
    \/ TextProviderResponds
    \/ GenerateStructuredOutput
    \/ UnderstandQueryIntent
    \/ StructuredProviderResponds


(***************************************************************************)
(* Provider contexts (BaseLLMProvider._serialize_context).  A value is a   *)
(* node [kind, atom, items]: a datetime, a string, a list of values, or a  *)
(* dict whose items are its entries (atom the key, items the one value).   *)
(***************************************************************************)
PyDatetime == [kind |-> "datetime", atom |-> "2024-01-01T00:00:00", items |-> <<>>]
PyText == [kind |-> "str", atom |-> "text", items |-> <<>>]
PyList(xs) == [kind |-> "list", atom |-> "", items |-> xs]
PyEntry(key, v) == [kind |-> "entry", atom |-> key, items |-> <<v>>]
PyDict(entries) == [kind |-> "dict", atom |-> "", items |-> entries]
\* v.isoformat()
IsoFormat(v) == [kind |-> "str", atom |-> v.atom, items |-> <<>>]

\* _serialize_context(context) for a dict context: the loop over
\* context.items() and, for a list value, the loop over its items
RECURSIVE SerializeContext(_)
SerializeContext(context) ==
    LET SerializeItem(item) ==
            IF item.kind = "datetime" THEN IsoFormat(item)
            ELSE IF item.kind = "dict" THEN SerializeContext(item)
            ELSE item
        SerializeValue(v) ==
            IF v.kind = "datetime" THEN IsoFormat(v)
            ELSE IF v.kind = "dict" THEN SerializeContext(v)
            ELSE IF v.kind = "list"
            THEN PyList([i \in DOMAIN v.items |-> SerializeItem(v.items[i])])
            ELSE v
    IN  PyDict([i \in DOMAIN context.items |->
                  PyEntry(context.items[i].atom,
                          SerializeValue(context.items[i].items[1]))])

\* the lists of up to MaxListLen values of S
ListsOver(S) == {PyList(xs) : xs \in UNION {[1..n -> S] : n \in 0..MaxListLen}}
\* the one-entry dicts over S
DictsOver(S) == {PyDict(<<PyEntry("k", v)>>) : v \in S}
Leaves == {PyDatetime, PyText}
\* values one container deep, and two deep (lists inside lists, maps
\* inside lists, lists inside maps, maps inside maps)
Inner == Leaves \cup ListsOver(Leaves) \cup DictsOver(Leaves)
Outer == Leaves \cup ListsOver(Inner) \cup DictsOver(Inner)
\* the context dicts passed to a provider
Contexts ==
    {PyDict(<<PyEntry("a", v)>>) : v \in Outer}
    \cup {PyDict(<<PyEntry("a", v), PyEntry("b", w)>>) : v \in Outer, w \in Leaves}

\* a provider's generate_text(prompt, context, ...) up to its request:
\* serialized_context = self._serialize_context(context)
ProviderGenerateText ==
    /\ \E context \in Contexts :
        gw' = [NoGw EXCEPT !.op = "provider_generate_text", !.pc = "done",
                           !.context = <<context>>,
                           !.sent = <<SerializeContext(context)>>]
    /\ UNCHANGED <<providers, default_provider_name, memVars>>

ContextNext == ProviderGenerateText


(***************************************************************************)
(* Specifications.                                                         *)
(***************************************************************************)
\* the state after construction; InitMemory also fixes the retrieval under study
Init == MemInit /\ LLMInit
InitMemory == MemoryInit /\ LLMInit

\* the opinion engine over the knowledge store
Spec == Init /\ [][OpinionNext]_vars
\* the knowledge store under its callers
SpecMemory == InitMemory /\ [][MemoryNext]_vars
\* the generation gateway and the orchestrator's intent parsing
SpecLLM == Init /\ [][LLMNext]_vars
\* the pipeline and the feedback entry point
SpecPipeline == Init /\ [][PipelineNext]_vars
\* move_to_core interleaved with other calls at its store calls
InitMove ==
    /\ StoreInit
    /\ request = [query |-> <<>>, memory_type |-> "all", limit |-> MaxLimit]
    /\ LLMInit
SpecMove == InitMove /\ [][MoveNext]_vars
\* update_opinion interleaved with other calls at its store calls
SpecUpdate == Init /\ [][UpdateNext]_vars
\* the process-wide instances under concurrent first calls, for each setting
\* of the lm_studio probe and of the other providers
InitSingleton ==
    /\ kv = <<>> /\ nextId = 1 /\ last = NoCall /\ opinions = <<>>
    /\ promoCalls = {} /\ age = <<>> /\ moved = {}
    /\ tasks = [t \in TaskIds |-> NoTask]
    /\ singletons \in {[NoSingletons EXCEPT !.lm_studio = probe, !.configured = other] :
                          probe \in BOOLEAN, other \in BOOLEAN}
    /\ request = NoRequest
    /\ LLMInit
SpecSingleton == InitSingleton /\ [][SingletonNext]_vars
\* the context a provider sends
SpecContext == Init /\ [][ContextNext]_vars


(***************************************************************************)
(* Properties of the opinion engine (specification Spec).                  *)
(***************************************************************************)
InUnit(c) == Geq(c, Zero) /\ Geq(One, c)
UpdateReturned == last.op = "update_opinion" /\ last.outcome = "ok"
\* the records of the tier under prefix that hold a snapshot of opinion o
SnapshotKeys(prefix, o) ==
    {key \in DOMAIN kv : /\ key[1] = prefix
                         /\ "id" \in DOMAIN kv[key].value.content
                         /\ kv[key].value.content.id.n = o}

C2_CoreIffPromoted ==
    \A o \in DOMAIN opinions :
        SnapshotKeys(core_memory_cache_prefix, o) # {} <=> o \in promoCalls

\* C3: after k update_opinion calls have returned for an opinion, its
\* validation_count is 1 + k
C3_Accumulates ==
    \A o \in DOMAIN opinions :
        opinions[o].validation_count = 1 + opinions[o].updates

\* the claim's right-hand side, computed apart from the model's update:
\* the factors of the evidence list, multiplied from the last item back
C4_Factor(evidence) ==
    IF "matches_belief" \in DOMAIN evidence /\ evidence.matches_belief = TRUE
    THEN Rat(11, 10) ELSE Rat(9, 10)
RECURSIVE C4_Product(_)
C4_Product(new_evidence) ==
    IF new_evidence = <<>> THEN One
    ELSE Mul(C4_Product(SubSeq(new_evidence, 1, Len(new_evidence) - 1)),
             C4_Factor(new_evidence[Len(new_evidence)]))
C4_Clamp01(x) == IF Lt(x, Zero) THEN Zero ELSE IF Lt(One, x) THEN One ELSE x

\* C4: an update_opinion call that returns has raised validation_count by
\* one and set confidence to clamp01(c * (1 + (v - 1) * 0.1) * product of
\* 1.1 / 0.9 over the evidence), an item without matches_belief counting 0.9
C4_SingleUpdate ==
    UpdateReturned =>
        LET c == last.loaded[1].confidence
            v == last.opinion[1].validation_count
        IN  /\ v = last.loaded[1].validation_count + 1
            /\ last.opinion[1].confidence =
                 C4_Clamp01(Mul(Mul(c, Rat(10 + (v - 1), 10)),
                                C4_Product(last.evidence)))
            /\ last.opinion[1].evidence = last.loaded[1].evidence \o last.evidence

\* an update with two evidence items, one of them without matches_belief,
\* whose result is clamped at neither end
C4_Witness ==
    /\ UpdateReturned
    /\ Len(last.evidence) = 2
    /\ \E i \in DOMAIN last.evidence : "matches_belief" \notin DOMAIN last.evidence[i]
    /\ Lt(Zero, last.opinion[1].confidence)
    /\ Lt(last.opinion[1].confidence, One)
    /\ last.opinion[1].validation_count = 2

\* C5: update_opinion called with the id of an opinion whose snapshot
\* form_opinion wrote, and which is still in the store and read, returns
\* the updated opinion
C5_FindsByOpinionId ==
    ( /\ last.op = "update_opinion"
      /\ last.arg \in DOMAIN opinions
      /\ opinions[last.arg].stored
      /\ SnapshotKeys(short_term_cache_prefix, last.arg) # {}
      /\ last.readOk )
    => last.outcome = "ok"


(***************************************************************************)
(* Properties of the knowledge store (specification SpecMemory).           *)
(***************************************************************************)
Retrieved == last.op = "retrieve_memory" /\ last.outcome = "ok"
TierKeys(memory_type) ==
    {key \in DOMAIN kv :
        \/ memory_type \in {"all", "short_term"} /\ key[1] = short_term_cache_prefix
        \/ memory_type \in {"all", "core"} /\ key[1] = core_memory_cache_prefix}

\* the claim's matching rule, stated over sets
C8_Match(record, query) ==
    \A key \in DOMAIN query :
        /\ key \in DOMAIN record
        /\ \/ /\ query[key].list
              /\ Range(query[key].items) \cap Range(record[key].items) # {}
           \/ /\ ~query[key].list
              /\ record[key] = query[key]

ShortTermIds(items) ==
    {items[i].id.items[1].n : i \in {j \in DOMAIN items :
        items[j].memory_type = Scalar(PyStr("short_term"))}}

\* C9: a record written to the short-term tier less than 86400 s ago, and
\* not handed to move_to_core, is in the tier and is returned by a retrieval
\* of the whole tier; 86400 s after the write the record is not in the tier
\* and no retrieval returns it
C9_ShortTermTTL ==
    /\ \A m \in DOMAIN age :
        /\ (age[m] < ShortTermTTL /\ m \notin moved)
              => <<short_term_cache_prefix, m>> \in DOMAIN kv
        /\ age[m] >= ShortTermTTL => <<short_term_cache_prefix, m>> \notin DOMAIN kv
    /\ Retrieved =>
        /\ \A m \in ShortTermIds(last.items) : m \in DOMAIN age /\ age[m] < ShortTermTTL
        /\ ( /\ request.query = <<>>
             /\ request.memory_type \in {"all", "short_term"}
             /\ last.readOk
             /\ request.limit >= Cardinality(TierKeys("short_term")) )
           => \A m \in DOMAIN age :
                (age[m] < ShortTermTTL /\ m \notin moved) => m \in ShortTermIds(last.items)

\* a retrieval returned a record written 82800 s before while a record
\* written 86400 s before is gone
C9_Witness ==
    /\ Retrieved
    /\ \E m \in DOMAIN age : age[m] >= ShortTermTTL
    /\ \E m \in ShortTermIds(last.items) : age[m] > 0 /\ age[m] < ShortTermTTL

(***************************************************************************)
(* Properties of the gateway (specification SpecLLM).                      *)
(***************************************************************************)
TextDone == gw.op = "generate_text" /\ gw.pc = "done"

\* C6: generate_text invokes at most two providers, the second only after
\* the first has failed, only when the first is not the default, and on
\* the default; a failure of a non-default provider is always retried; the
\* call returns the text of the invocation that succeeded and raises when
\* the default failed
C6_Fallback ==
    gw.op = "generate_text" =>
        /\ Len(gw.invoked) <= 2
        /\ Len(gw.invoked) - Len(gw.results) \in {0, 1}
        /\ Len(gw.invoked) = 2 =>
            /\ gw.results # <<>> /\ gw.results[1] = FALSE
            /\ gw.invoked[1] # default_provider_name
            /\ gw.invoked[2] = default_provider_name
        /\ gw.pc = "done" =>
            /\ Len(gw.results) = Len(gw.invoked)
            /\ (gw.results[1] = FALSE /\ gw.invoked[1] # default_provider_name)
                  => Len(gw.invoked) = 2
            /\ gw.outcome = IF gw.results[Len(gw.results)] THEN "ok" ELSE "raised"
            /\ gw.results[1] = TRUE => Len(gw.invoked) = 1

\* a non-default provider failed and the default provider's text was returned
C6_Witness ==
    /\ TextDone
    /\ gw.results = <<FALSE, TRUE>>
    /\ gw.outcome = "ok"
    /\ gw.invoked[1] # gw.invoked[2]

StructuredDone == gw.op = "generate_structured_output" /\ gw.pc = "done"
\* document d alone, in a json fence, and in a plain fence
C7_Wrappings(d) ==
    {<<d>>, FenceJson \o <<"\n", d, "\n">> \o Fence, Fence \o <<"\n", d, "\n">> \o Fence}

\* C7: generate_structured_output returns document d for the provider
\* texts d, d in a json fence and d in a plain fence
C7_FencesStripped ==
    (StructuredDone /\ gw.results = <<TRUE>>) =>
        \A d \in JsonDocs :
            gw.response \in C7_Wrappings(d)
                => gw.outcome = "ok" /\ gw.value = <<JsonValue[d]>>

IntentDone == gw.op = "understand_query_intent" /\ gw.pc = "done"

ShortKey(m) == <<short_term_cache_prefix, m>>
CoreKey(m) == <<core_memory_cache_prefix, m>>
CoreTyped(store) ==
    \A key \in DOMAIN store :
        key[1] = core_memory_cache_prefix
            => store[key].value.memory_type = Scalar(PyStr("core"))

\* C11: no step writes a short-term entry for an id that was handed to
\* move_to_core (an entry under the short-term key after the step was
\* there, unchanged, before it), and every record under the core tier has
\* memory_type "core"
C11_TierOneWay ==
    [][ /\ \A m \in moved :
            ShortKey(m) \in DOMAIN kv'
                => /\ ShortKey(m) \in DOMAIN kv
                   /\ kv'[ShortKey(m)].value = kv[ShortKey(m)].value
        /\ CoreTyped(kv') ]_vars

\* move_to_core wrote the core entry while its delete failed: the id is
\* under both tiers
C11_Witness ==
    /\ last.op = "move_to_core"
    /\ CoreKey(last.arg) \in DOMAIN kv
    /\ ShortKey(last.arg) \in DOMAIN kv
    /\ kv[CoreKey(last.arg)].value.memory_type = Scalar(PyStr("core"))

\* C13: a move_to_core call that wrote the core entry leaves no short-term
\* entry for the id and a core entry with memory_type "core", and a core
\* entry of a moved id is still in the core tier after every later step,
\* whatever time has passed
C13_MovedStaysInCore ==
    [][ /\ (last'.op = "move_to_core" /\ last'.wrote) =>
              /\ ShortKey(last'.arg) \notin DOMAIN kv'
              /\ CoreKey(last'.arg) \in DOMAIN kv'
              /\ kv'[CoreKey(last'.arg)].value.memory_type = Scalar(PyStr("core"))
        /\ \A m \in moved :
              CoreKey(m) \in DOMAIN kv => CoreKey(m) \in DOMAIN kv' ]_vars

\* C14: move_to_core answers True only when its write of the core entry
\* took place, so that the core entry is in the store when it returns
C14_TrueOnlyWhenWritten ==
    (last.op = "move_to_core" /\ last.outcome = "True") =>
        /\ last.wrote
        /\ CoreKey(last.arg) \in DOMAIN kv


(***************************************************************************)
(* Properties of the opinion engine, continued (specification Spec).       *)
(***************************************************************************)
\* the short-term record an update_opinion call wrote, if its write succeeded
UpdateWritten ==
    IF last.wrote /\ ShortKey(nextId - 1) \in DOMAIN kv
    THEN <<kv[ShortKey(nextId - 1)].value>> ELSE <<>>

C15_OpinionKept ==
    \A o \in DOMAIN opinions :
        opinions[o].stored =>
            SnapshotKeys(short_term_cache_prefix, o)
                \cup SnapshotKeys(core_memory_cache_prefix, o) # {}

FormReturned == last.op = "form_opinion" /\ last.outcome = "ok"
\* the claim's right-hand side: analysis_result.confidence or 0.5, times
\* data_quality_score whenever the field is present
C16_Expected(analysis_result) ==
    LET base == IF "confidence" \in DOMAIN analysis_result
                THEN analysis_result.confidence ELSE Rat(1, 2)
    IN  IF "data_quality_score" \in DOMAIN analysis_result
        THEN Mul(base, analysis_result.data_quality_score) ELSE base

\* C16: the confidence of the opinion form_opinion returns is
\* clamp01(confidence-or-0.5 * data_quality_score-if-present), a
\* data_quality_score of 0 giving 0
C16_InitialConfidence ==
    FormReturned =>
        last.opinion[1].confidence = C4_Clamp01(C16_Expected(last.analysis[1]))

\* the short-term record a form_opinion call wrote, if its write succeeded
FormWritten ==
    IF last.wrote /\ ShortKey(nextId - 1) \in DOMAIN kv
    THEN <<kv[ShortKey(nextId - 1)].value>> ELSE <<>>
\* form_opinion called add_to_short_term: a record id was drawn for it
FormAttemptedWrite == opinions[last.arg].mem # 0

\* C17: a form_opinion call whose generation succeeded returns the opinion,
\* with validation_count 1; it calls the short-term write exactly when the
\* confidence is at least 0.6, a successful write stores a snapshot of the
\* returned opinion, and a failed write leaves the call returning the same
\* opinion
C17_FormReturnsAndPersists ==
    (last.op = "form_opinion" /\ last.outcome # "ProviderCallFailed") =>
        /\ last.outcome = "ok"
        /\ last.opinion # <<>>
        /\ last.opinion[1].validation_count = 1
        /\ last.opinion[1].id = UUIDObj(last.arg)
        /\ last.opinion[1].confidence = CalculateConfidence(last.analysis[1])
        /\ FormAttemptedWrite <=> Geq(last.opinion[1].confidence, Rat(6, 10))
        /\ last.wrote => FormAttemptedWrite
        /\ FormWritten # <<>> =>
              /\ FormWritten[1].content.id = StrOfUUID(last.opinion[1].id)
              /\ FormWritten[1].content.confidence = last.opinion[1].confidence
              /\ FormWritten[1].source = Scalar(PyStr("opinion_formation"))

\* an opinion of confidence exactly 0.6 whose write failed: it is returned,
\* and the store holds nothing
C17_Witness ==
    /\ FormReturned
    /\ last.opinion[1].confidence = Rat(6, 10)
    /\ FormAttemptedWrite
    /\ ~last.wrote
    /\ SnapshotKeys(short_term_cache_prefix, last.arg) = {}

(***************************************************************************)
(* Properties of the pipeline (specification SpecPipeline).                *)
(***************************************************************************)
PipelineDone == last.op = "process_data_and_generate_analysis"
\* the generate_text calls of the run that were made at temperature t
CallsAt(t) == {i \in DOMAIN last.run[1].calls : last.run[1].calls[i].temperature = t}
\* the analysis_session records of a store
SessionKeys(store) ==
    {key \in DOMAIN store : store[key].value.source = Scalar(PyStr("chaetra_processing"))}

\* C18: a pipeline run calls generate_trading_suggestion (the one
\* generate_text call at temperature 0.2) exactly when user_goal is
\* find_buy_opportunity, find_sell_opportunity or assess_trade, or the
\* formed opinion's confidence is above 0.7; otherwise no such call is made
\* and the returned trading_suggestion is null
C18_SuggestionIff ==
    PipelineDone =>
        LET r == last.run[1]
            wanted == /\ last.opinion # <<>>
                      /\ \/ r.query_intent.user_goal \in
                              {"find_buy_opportunity", "find_sell_opportunity",
                               "assess_trade"}
                         \/ Lt(Rat(7, 10), last.opinion[1].confidence)
        IN  /\ CallsAt(Rat(2, 10)) # {} <=> wanted
            /\ Cardinality(CallsAt(Rat(2, 10))) <= 1
            /\ r.response # <<>> =>
                 (r.response[1].trading_suggestion = <<>> <=> ~wanted)

\* a run whose opinion has confidence exactly 0.7 and whose user_goal is
\* none of the three: it returns without a suggestion
C18_Witness ==
    /\ PipelineDone
    /\ last.outcome = "ok"
    /\ last.run[1].query_intent.user_goal = "learn_concept"
    /\ last.opinion[1].confidence = Rat(7, 10)
    /\ last.run[1].response[1].trading_suggestion = <<>>
    /\ CallsAt(Rat(2, 10)) = {}

\* C19: a learn_from_interaction_outcome call returns, has written a
\* learning record, and, given a prior opinion, has updated it once, so
\* that its validation_count has risen by one
C19_LearnsAndUpdates ==
    last.op = "learn_from_interaction_outcome" =>
        /\ last.outcome = "ok"
        /\ \E key \in DOMAIN kv :
              kv[key].value.source = Scalar(PyStr("feedback_learning"))
        /\ last.arg # 0 =>
              /\ opinions[last.arg].updates >= 1
              /\ opinions[last.arg].validation_count = 1 + opinions[last.arg].updates

\* C20: a pipeline run in which a generate_text call failed raises, and
\* leaves the analysis_session records as they were; a run that adds an
\* analysis_session record has had every generate_text call succeed, and
\* the record is the last thing it wrote
C20_FailurePropagates ==
    [][ (last'.op = "process_data_and_generate_analysis") =>
          LET r == last'.run[1]
              anyFailed == \E i \in DOMAIN r.calls : ~r.calls[i].ok
          IN  /\ anyFailed =>
                   /\ last'.outcome = "ProviderCallFailed"
                   /\ r.response = <<>>
                   /\ SessionKeys(kv') = SessionKeys(kv)
              /\ ~anyFailed => last'.outcome = "ok" /\ r.response # <<>>
              /\ SessionKeys(kv') # SessionKeys(kv) =>
                   /\ ~anyFailed
                   /\ SessionKeys(kv') = SessionKeys(kv) \cup {ShortKey(nextId' - 1)}
      ]_vars

\* generate_trading_suggestion failed after the analysis record and the
\* opinion were written: the run raised and no analysis_session record exists
C20_Witness ==
    /\ PipelineDone
    /\ last.outcome = "ProviderCallFailed"
    /\ Len(last.run[1].calls) = 3
    /\ ~last.run[1].calls[3].ok
    /\ Cardinality(DOMAIN kv) = 2
    /\ SessionKeys(kv) = {}

(***************************************************************************)
(* Properties of the gateway, continued (specification SpecLLM).           *)
(***************************************************************************)
\* the positions of a name in the configured order
OrderIndex(name) == {i \in DOMAIN provider_order : provider_order[i] = name}

\* C21: once create has succeeded the default provider is an initialized
\* provider and no name before it in the configured order is initialized;
\* a create with no initialized provider raises and leaves no default
C21_DefaultIsFirstInitialized ==
    /\ Created =>
          /\ default_provider_name \in providers
          /\ \A i \in OrderIndex(default_provider_name) :
                \A j \in 1..(i - 1) : provider_order[j] \notin providers
    /\ (gw.op = "create" /\ gw.outcome = "ok") => (Created /\ providers # {})
    /\ (gw.op = "create" /\ gw.outcome = "raised") => (providers = {} /\ ~Created)
    /\ providers # {} => Created

\* create succeeded with two providers initialized, neither of them the
\* first of the order: the earlier of the two is the default
C21_Witness ==
    /\ gw.op = "create"
    /\ gw.outcome = "ok"
    /\ providers = {"openai", "ollama"}
    /\ default_provider_name = "openai"

\* C24: a generate_structured_output call whose requested provider is not
\* the default and fails has, when it ends, invoked the default provider as
\* its one retry
C24_StructuredFallsBack ==
    ( /\ StructuredDone
      /\ gw.invoked # <<>>
      /\ gw.invoked[1] # default_provider_name
      /\ gw.results[1] = FALSE )
    => /\ Len(gw.invoked) = 2
       /\ gw.invoked[2] = default_provider_name
       /\ Len(gw.results) = 2


(***************************************************************************)
(* Properties of promotion and of the opinion records (specification Spec).*)
(***************************************************************************)
\* the opinion records of the core tier
CoreOpinionKeys ==
    {key \in DOMAIN kv : /\ key[1] = core_memory_cache_prefix
                         /\ "id" \in DOMAIN kv[key].value.content}

\* C22: every opinion record of the core tier holds confidence >= 0.8 and
\* validation_count >= 3 in its content, and the record an update_opinion
\* call has just promoted holds the confidence and validation_count the
\* call returned
C22_CoreHoldsPostUpdate ==
    /\ \A key \in CoreOpinionKeys :
          /\ Geq(kv[key].value.content.confidence, Rat(8, 10))
          /\ kv[key].value.content.validation_count >= 3
    /\ (UpdateReturned /\ CoreKey(last.arg) \in CoreOpinionKeys) =>
          /\ kv[CoreKey(last.arg)].value.content.confidence
                = last.opinion[1].confidence
          /\ kv[CoreKey(last.arg)].value.content.validation_count
                = last.opinion[1].validation_count

\* C23: the store holds at most one record per opinion id, and an opinion
\* with a record in the core tier has none in the short-term tier
C23_OneRecordPerOpinion ==
    \A o \in DOMAIN opinions :
        /\ Cardinality(SnapshotKeys(short_term_cache_prefix, o)
                          \cup SnapshotKeys(core_memory_cache_prefix, o)) <= 1
        /\ SnapshotKeys(core_memory_cache_prefix, o) # {}
              => SnapshotKeys(short_term_cache_prefix, o) = {}

(***************************************************************************)
(* Properties of the provider context (specification SpecContext).         *)
(***************************************************************************)
RECURSIVE HasDatetime(_)
HasDatetime(v) ==
    \/ v.kind = "datetime"
    \/ \E i \in DOMAIN v.items : HasDatetime(v.items[i])
\* the claim's conversion: every datetime, at any depth, replaced by its ISO
\* string, everything else as it was
RECURSIVE C25_DeepIso(_)
C25_DeepIso(v) ==
    IF v.kind = "datetime" THEN [kind |-> "str", atom |-> v.atom, items |-> <<>>]
    ELSE [v EXCEPT !.items = [i \in DOMAIN v.items |-> C25_DeepIso(v.items[i])]]

\* C25: the context a provider sends holds no datetime at any depth, and
\* is the context it was given with every datetime replaced by its ISO
\* string
C25_NoTemporalValueSent ==
    gw.op = "provider_generate_text" =>
        /\ ~HasDatetime(gw.sent[1])
        /\ gw.sent[1] = C25_DeepIso(gw.context[1])

(***************************************************************************)
(* Properties of the recalculated confidence (specification Spec).         *)
(***************************************************************************)
\* the call that returned had a non-empty new_evidence of contradicting
\* items only (matches_belief false or absent)
OnlyContradicting ==
    /\ UpdateReturned
    /\ last.evidence # <<>>
    /\ \A i \in DOMAIN last.evidence : ~MatchesBelief(last.evidence[i])

\* C27: an update_opinion call whose new_evidence is non-empty and holds
\* only contradicting items returns a confidence no higher than the one it
\* loaded, and when it meets the promotion test the loaded confidence was
\* already at least 0.8
C27_ContradictionNeverRaises ==
    OnlyContradicting =>
        /\ ~Lt(last.loaded[1].confidence, last.opinion[1].confidence)
        /\ ShouldPromote(last.opinion[1].confidence, last.opinion[1].validation_count)
              => Geq(last.loaded[1].confidence, PromoteConfidence)


(***************************************************************************)
(* Properties of suspended calls (specification SpecMove).                 *)
(***************************************************************************)
\* task t is between the delete of move_to_core, which took place, and
\* the write, or ended there
BetweenDeleteAndWrite(t) ==
    /\ tasks[t].op = "move_to_core"
    /\ tasks[t].pc \in {"deleted", "crashed"}
    /\ tasks[t].ok

\* C26: while a move_to_core call is suspended between its delete and its
\* write, and after a crash at that point, the item is in neither tier,
\* and a retrieve_memory made meanwhile does not return it
C26_InNeitherTier ==
    \A t \in TaskIds :
        BetweenDeleteAndWrite(t) =>
            /\ ShortKey(tasks[t].arg) \notin DOMAIN kv
            /\ CoreKey(tasks[t].arg) \notin DOMAIN kv
            /\ last.op = "retrieve_memory" =>
                  \A i \in DOMAIN last.items :
                      last.items[i].id.items[1].n # tasks[t].arg

\* the process ended between the delete and the write of one item, and a
\* later retrieve_memory over both tiers returned the other record only
C26_Witness ==
    /\ \E t \in TaskIds : BetweenDeleteAndWrite(t) /\ tasks[t].pc = "crashed"
    /\ last.op = "retrieve_memory"
    /\ last.readOk
    /\ request.memory_type = "all"
    /\ request.limit >= 2
    /\ Len(last.items) = 1

(***************************************************************************)
(* Properties of concurrent updates (specification SpecUpdate).            *)
(***************************************************************************)
\* tasks t and u ran update_opinion on the same record, each loading it
\* while the other was suspended or before the other wrote, and both
\* returned with their writes accepted
BothReturned(t, u) ==
    /\ t # u
    /\ tasks[t].op = "update_opinion" /\ tasks[t].pc = "done" /\ tasks[t].ok
    /\ tasks[u].op = "update_opinion" /\ tasks[u].pc = "done" /\ tasks[u].ok
    /\ u \in tasks[t].peers
    /\ t \in tasks[u].peers

\* the snapshot records of opinion o, in either tier
StoredSnapshots(o) ==
    {kv[key].value.content :
        key \in SnapshotKeys(short_term_cache_prefix, o)
                   \cup SnapshotKeys(core_memory_cache_prefix, o)}

\* C28: when two overlapping update_opinion calls on one opinion have both
\* returned, a stored snapshot of the opinion holds a validation_count 2
\* above the loaded one and the loaded evidence followed by the evidence of
\* both calls
C28_BothReflected ==
    \A t, u \in TaskIds :
        BothReturned(t, u) =>
            \E snapshot \in StoredSnapshots(tasks[t].opinion[1].id.n) :
                /\ snapshot.validation_count
                      = tasks[t].loaded[1].validation_count + 2
                /\ snapshot.evidence
                      \in {tasks[t].loaded[1].evidence \o tasks[t].evidence
                               \o tasks[u].evidence,
                           tasks[t].loaded[1].evidence \o tasks[u].evidence
                               \o tasks[t].evidence}

(***************************************************************************)
(* Properties of the process-wide instances (specification SpecSingleton). *)
(***************************************************************************)
\* C29: all get_instance calls that returned hold the same CHAETRA object,
\* and setup_dependencies has built at most one LLMManager
C29_OneInstance ==
    /\ \A t, u \in TaskIds :
          (/\ tasks[t].op = "get_instance" /\ tasks[t].pc = "done"
           /\ tasks[u].op = "get_instance" /\ tasks[u].pc = "done")
              => tasks[t].returned = tasks[u].returned
    /\ singletons.managers <= 1

====
